---- MODULE Spec2Model ----
(***************************************************************************)
(* Model of agent_trace_processor (src/agent_trace_reader.py): one tool    *)
(* call reads a JSON trace through the workspace path resolver, normalises *)
(* its root, scans the records, builds the result mapping and saves it.    *)
(*                                                                         *)
(* Values.  A JSON / Python value is a one-field record whose field name   *)
(* is its type: [str |-> "a"], [int |-> 1], [bool |-> TRUE],               *)
(* [null |-> TRUE] (Python None), [list |-> <<v1, ...>>] and               *)
(* [dict |-> << <<k1, v1>>, ... >>] (a mapping keeps insertion order, as   *)
(* Python's dict does).  Text (file contents, formatted lines) is a TLA+   *)
(* string, and the conversions between values and text are computed        *)
(* character by character.                                                 *)
(***************************************************************************)
EXTENDS Integers, Sequences, FiniteSets, TLC

VARIABLES
    fs,                  \* filesystem: real file path -> [text |-> ...] or NoFile
    dirs,                \* filesystem: the directories that exist
    pc,                  \* position of the running call inside the function
    fault,               \* the collaborator failure this call ran into, if any
    calls,               \* number of calls started so far
    virtual_json_path,   \* argument
    output_virtual_path, \* argument, rebound at line 110
    input_path,          \* local, line 26
    data,                \* local, line 35
    full_content,        \* local, lines 42/45
    idx,                 \* number of records the loop of line 58 has consumed
    user_goal,           \* local, line 53
    gathered_facts,      \* local, line 54
    previous_analyses,   \* local, line 55
    links_to_text,       \* local, line 56
    processed_result,    \* local, line 97
    save_path,           \* local, line 112
    ret,                 \* what the call handed back to its caller
    entry,               \* the filesystem and arguments as they were at call entry
    prev                 \* the call before this one, as its caller saw it

vars == <<fs, dirs, pc, fault, calls, virtual_json_path, output_virtual_path,
          input_path, data, full_content, idx, user_goal, gathered_facts,
          previous_analyses, links_to_text, processed_result, save_path, ret,
          entry, prev>>

----------------------------------------------------------------------------
(* Bounds of the model. *)

\* Longest record list an input file holds.
MaxLen == 2

\* Number of tool calls in one behaviour.
MaxCalls == 2

----------------------------------------------------------------------------
(* Python / JSON values. *)

Str(s) == [str |-> s]
Num(n) == [int |-> n]
Bool(b) == [bool |-> b]
None == [null |-> TRUE]
List(xs) == [list |-> xs]
Dict(kvs) == [dict |-> kvs]

IsStr(v) == "str" \in DOMAIN v
IsInt(v) == "int" \in DOMAIN v
IsBool(v) == "bool" \in DOMAIN v
IsNone(v) == "null" \in DOMAIN v
IsList(v) == "list" \in DOMAIN v
IsDict(v) == "dict" \in DOMAIN v

\* key in d
HasKey(d, k) == \E n \in 1..Len(d.dict) : d.dict[n][1] = k

\* d.get(k, default)
Get(d, k, default) ==
    IF HasKey(d, k)
    THEN d.dict[CHOOSE n \in 1..Len(d.dict) : d.dict[n][1] = k][2]
    ELSE default

\* Python truthiness: `not v` is ~Truthy(v)
Truthy(v) ==
    CASE IsNone(v) -> FALSE
      [] IsStr(v)  -> v.str # ""
      [] IsInt(v)  -> v.int # 0
      [] IsBool(v) -> v.bool
      [] IsList(v) -> Len(v.list) > 0
      [] IsDict(v) -> Len(v.dict) > 0

\* Python `v == 1`: an int 1, or True (bool is a subtype of int).
EqualsOne(v) ==
    \/ IsInt(v) /\ v.int = 1
    \/ IsBool(v) /\ v.bool

\* Python `v == s` for a string literal s.
EqualsStr(v, s) == IsStr(v) /\ v.str = s

----------------------------------------------------------------------------
(* Text helpers. *)

RECURSIVE Join(_, _)
\* sep.join(parts)
Join(parts, sep) ==
    IF Len(parts) = 0 THEN ""
    ELSE IF Len(parts) = 1 THEN parts[1]
    ELSE parts[1] \o sep \o Join(Tail(parts), sep)

RECURSIVE Spaces(_)
Spaces(n) == IF n = 0 THEN "" ELSE " " \o Spaces(n - 1)

\* s.startswith(p), s.endswith(p)
StartsWith(s, p) == Len(p) <= Len(s) /\ SubSeq(s, 1, Len(p)) = p
EndsWith(s, p) == Len(p) <= Len(s) /\ SubSeq(s, Len(s) - Len(p) + 1, Len(s)) = p

\* s.rfind(ch) as a 1-based position, 0 when ch does not occur.
RFind(s, ch) ==
    LET hits == {n \in 1..Len(s) : SubSeq(s, n, n) = ch}
    IN  IF hits = {} THEN 0 ELSE CHOOSE n \in hits : \A m \in hits : m <= n

RECURSIVE PyRepr(_)
\* repr(v), for text without quotes or escapes
PyRepr(v) ==
    CASE IsNone(v) -> "None"
      [] IsStr(v)  -> "'" \o v.str \o "'"
      [] IsInt(v)  -> ToString(v.int)
      [] IsBool(v) -> IF v.bool THEN "True" ELSE "False"
      [] IsList(v) ->
            "[" \o Join([n \in 1..Len(v.list) |-> PyRepr(v.list[n])], ", ") \o "]"
      [] IsDict(v) ->
            "{" \o Join([n \in 1..Len(v.dict) |->
                           "'" \o v.dict[n][1] \o "': " \o PyRepr(v.dict[n][2])],
                        ", ") \o "}"

\* str(v), also what an f-string field {v} renders
PyStr(v) == IF IsStr(v) THEN v.str ELSE PyRepr(v)

RECURSIVE JsonEscape(_)
\* The body of a JSON string literal: quotes and backslashes escaped, other
\* characters (non-ASCII ones too, ensure_ascii=False) written as they are.
\* Escaping works character by character, so a text is escaped by halves.
JsonEscape(s) ==
    IF Len(s) = 0 THEN ""
    ELSE IF Len(s) = 1
    THEN (IF s = "\"" THEN "\\\"" ELSE IF s = "\\" THEN "\\\\" ELSE s)
    ELSE JsonEscape(SubSeq(s, 1, Len(s) \div 2))
            \o JsonEscape(SubSeq(s, Len(s) \div 2 + 1, Len(s)))

RECURSIVE JsonDumps(_)
\* json.dumps(v, ensure_ascii=False): one line, ", " and ": " separators
JsonDumps(v) ==
    CASE IsNone(v) -> "null"
      [] IsStr(v)  -> "\"" \o JsonEscape(v.str) \o "\""
      [] IsInt(v)  -> ToString(v.int)
      [] IsBool(v) -> IF v.bool THEN "true" ELSE "false"
      [] IsList(v) ->
            "[" \o Join([n \in 1..Len(v.list) |-> JsonDumps(v.list[n])], ", ") \o "]"
      [] IsDict(v) ->
            "{" \o Join([n \in 1..Len(v.dict) |->
                           "\"" \o v.dict[n][1] \o "\": " \o JsonDumps(v.dict[n][2])],
                        ", ") \o "}"

\* Width of one indentation level of the saved file (indent=4, line 118).
Indent == 4

RECURSIVE JsonDumpsIndent(_, _)
\* json.dump(v, f, indent=4, ensure_ascii=False), v nested `level` deep
JsonDumpsIndent(v, level) ==
    LET inner == "\n" \o Spaces(Indent * (level + 1))
        outer == "\n" \o Spaces(Indent * level)
    IN  CASE IsList(v) /\ Len(v.list) > 0 ->
               "[" \o inner
                   \o Join([n \in 1..Len(v.list) |->
                              JsonDumpsIndent(v.list[n], level + 1)], "," \o inner)
                   \o outer \o "]"
          [] IsDict(v) /\ Len(v.dict) > 0 ->
               "{" \o inner
                   \o Join([n \in 1..Len(v.dict) |->
                              "\"" \o v.dict[n][1] \o "\": "
                                 \o JsonDumpsIndent(v.dict[n][2], level + 1)],
                           "," \o inner)
                   \o outer \o "}"
          [] OTHER -> JsonDumps(v)

----------------------------------------------------------------------------
(* The record scan, lines 58-94. *)

\* Number of characters of the answer a link line keeps (answer[:50], line 80).
AnswerCut == 50

\* A local that has no value yet.
Unbound == [unbound |-> TRUE]

\* What `for x in v` iterates over; iterating anything else is a TypeError.
Iterable(v) == IsList(v) \/ IsStr(v) \/ IsDict(v)

Elements(v) ==
    CASE IsList(v) -> v.list
      [] IsStr(v)  -> [n \in 1..Len(v.str) |-> Str(SubSeq(v.str, n, n))]
      [] IsDict(v) -> [n \in 1..Len(v.dict) |-> Str(v.dict[n][1])]

\* v[:50] is defined for text and lists; on None, a number or a mapping it raises.
Sliceable(v) == IsStr(v) \/ IsList(v)

Slice(v, n) ==
    IF IsStr(v)
    THEN Str(SubSeq(v.str, 1, IF Len(v.str) < n THEN Len(v.str) ELSE n))
    ELSE List(SubSeq(v.list, 1, IF Len(v.list) < n THEN Len(v.list) ELSE n))

\* The subsequence of the mappings of a sequence, in order.
RECURSIVE Mappings(_)
Mappings(xs) ==
    IF Len(xs) = 0 THEN <<>>
    ELSE IF IsDict(Head(xs)) THEN <<Head(xs)>> \o Mappings(Tail(xs))
    ELSE Mappings(Tail(xs))

\* Line 67.
IsGoal(msg) == EqualsOne(Get(msg, "id", None)) /\ EqualsStr(Get(msg, "role", None), "client")

\* Line 71.
IsSearch(msg) ==
    EqualsStr(Get(msg, "taskType", None), "search") /\ IsDict(Get(msg, "content", None))

\* Line 92.
IsAnalysis(msg) ==
    EqualsStr(Get(msg, "taskType", None), "analyze")
        /\ EqualsStr(Get(msg, "role", None), "server")

\* Line 80: one link line.
LinkLine(sub_task, answer, citation) ==
    Str("Sub-task: " \o PyStr(sub_task) \o ", Answer: "
            \o PyStr(Slice(answer, AnswerCut)) \o "..., Link: "
            \o PyStr(Get(citation, "url", Str("#"))))

\* Line 83: one source line.
SourceLine(c) ==
    Str("[" \o PyStr(Get(c, "index", Str("?"))) \o "] "
            \o PyStr(Get(c, "title", Str("Source"))))

\* Mutant: content.get("subTask"), which gives None for a missing key.
SubTaskOfWithoutDefault(content) == Get(content, "subTask", None)

\* Lines 72-74.
SubTaskOf(content) == Get(content, "subTask", Str("Unknown"))
AnswerOf(content) == Get(content, "answer", Str(""))
CitationsOf(content) == Get(content, "citation", List(<<>>))

\* Lines 77-80: the lines the search block appends to links_to_text.
LinkLines(content) ==
    LET cs == Mappings(Elements(CitationsOf(content)))
    IN  [n \in 1..Len(cs) |-> LinkLine(SubTaskOf(content), AnswerOf(content), cs[n])]

\* Lines 83-88: the fact block.
FactBlock(content) ==
    LET cs == Mappings(Elements(CitationsOf(content)))
    IN  Dict(<< <<"topic", SubTaskOf(content)>>,
                <<"findings", AnswerOf(content)>>,
                <<"sources", List([n \in 1..Len(cs) |-> SourceLine(cs[n])])>> >>)

\* Lines 93-94.
AnalysisEntry(msg) ==
    LET content == Get(msg, "content", None)
    IN  Dict(<< <<"step_id", Get(msg, "id", None)>>,
                <<"analysis", IF IsStr(content) THEN content
                              ELSE Str(JsonDumps(content))>> >>)

\* The loop body raises (TypeError) on this record: line 77 iterates a citation
\* field that is not iterable, or line 80 slices an answer that cannot be sliced.
BodyRaises(msg) ==
    /\ IsDict(msg)
    /\ IsSearch(msg)
    /\ LET content == Get(msg, "content", None)
       IN  \/ ~Iterable(CitationsOf(content))
           \/ /\ Len(Mappings(Elements(CitationsOf(content)))) > 0
              /\ ~Sliceable(AnswerOf(content))

\* Mutant: the facts are kept newest first.
ScanRecordNewestFirst(acc, msg) ==
    IF ~IsDict(msg) THEN acc
    ELSE LET content == Get(msg, "content", None)
         IN  [user_goal |->
                  IF IsGoal(msg) THEN Str(PyStr(content)) ELSE acc.user_goal,
              gathered_facts |->
                  IF IsSearch(msg) THEN <<FactBlock(content)>> \o acc.gathered_facts
                  ELSE acc.gathered_facts,
              previous_analyses |->
                  IF IsAnalysis(msg)
                  THEN Append(acc.previous_analyses, AnalysisEntry(msg))
                  ELSE acc.previous_analyses,
              links_to_text |->
                  IF IsSearch(msg) THEN acc.links_to_text \o LinkLines(content)
                  ELSE acc.links_to_text]

\* Mutant: the three rules as one if / elif / elif chain.
ScanRecordExclusive(acc, msg) ==
    IF ~IsDict(msg) THEN acc
    ELSE LET content == Get(msg, "content", None)
         IN  IF IsGoal(msg) THEN [acc EXCEPT !.user_goal = Str(PyStr(content))]
             ELSE IF IsSearch(msg)
             THEN [acc EXCEPT !.gathered_facts = Append(@, FactBlock(content)),
                              !.links_to_text = @ \o LinkLines(content)]
             ELSE IF IsAnalysis(msg)
             THEN [acc EXCEPT !.previous_analyses = Append(@, AnalysisEntry(msg))]
             ELSE acc

\* One pass of the loop body (lines 59-94) over msg, for a record on which it does
\* not raise: the four accumulators after it.
ScanRecord(acc, msg) ==
    IF ~IsDict(msg) THEN acc
    ELSE LET content == Get(msg, "content", None)
         IN  [user_goal |->
                  IF IsGoal(msg) THEN Str(PyStr(content)) ELSE acc.user_goal,
              gathered_facts |->
                  IF IsSearch(msg) THEN Append(acc.gathered_facts, FactBlock(content))
                  ELSE acc.gathered_facts,
              previous_analyses |->
                  IF IsAnalysis(msg)
                  THEN Append(acc.previous_analyses, AnalysisEntry(msg))
                  ELSE acc.previous_analyses,
              links_to_text |->
                  IF IsSearch(msg) THEN acc.links_to_text \o LinkLines(content)
                  ELSE acc.links_to_text]

----------------------------------------------------------------------------
(* Paths: the workspace resolver and the pathlib operations the code uses. *)

\* The real directory the virtual root "/workspace" stands for.
WorkspaceRoot == "/srv/ws"

VirtualRoot == "/workspace/"

RECURSIVE StripDot(_)
\* Drop leading "./" segments.
StripDot(rest) ==
    IF StartsWith(rest, "./") THEN StripDot(SubSeq(rest, 3, Len(rest))) ELSE rest

\* resolve_workspace_path(v) raises: v lies outside the virtual root.
ResolveRaises(v) == ~StartsWith(v, VirtualRoot)

\* resolve_workspace_path(v): the real location of a virtual path.
Resolve(v) ==
    WorkspaceRoot \o "/" \o StripDot(SubSeq(v, Len(VirtualRoot) + 1, Len(v)))

\* Path.name, Path.parent, Path.stem
Name(p) == SubSeq(p, RFind(p, "/") + 1, Len(p))
Parent(p) == SubSeq(p, 1, RFind(p, "/") - 1)
Stem(p) ==
    LET name == Name(p)
        dot == RFind(name, ".")
    IN  IF 1 < dot /\ dot < Len(name) THEN SubSeq(name, 1, dot - 1) ELSE name

\* A directory and the directories above it.
Ancestors(d) ==
    {d} \cup {SubSeq(d, 1, n - 1) : n \in {m \in 2..Len(d) : SubSeq(d, m, m) = "/"}}

\* Path.exists()
Exists(p) == p \in DOMAIN fs \/ p \in dirs

\* Path.mkdir(parents=True, exist_ok=True) raises: a component is a regular file.
MkdirRaises(d) == \E a \in Ancestors(d) : a \in DOMAIN fs

\* A file holding the JSON text of a document; `doc` is what json.load returns
\* for `text`.  Text that is no JSON document has no `doc`.
JsonFile(v, text) == [doc |-> v, text |-> text]
BrokenFile(text) == [text |-> text]

\* What json.dump(v, f, indent=4, ensure_ascii=False) leaves in the file (line 118).
DumpedFile(v) == JsonFile(v, JsonDumpsIndent(v, 0))

\* json.load raises on this file.
JsonLoadRaises(file) == "doc" \notin DOMAIN file

----------------------------------------------------------------------------
(* Return values, lines 28, 31, 37, 47, 50, 121-125, 127-135. *)

ErrorReturn(msg) == [status |-> "error", error |-> msg]

\* Mutant: a failed save reported as a total failure.
PartialReturnAsError(result, msg) ==
    [status |-> "error", error |-> "Failed to save file: " \o msg]

\* Mutant: a failed save that drops the extracted data.
PartialReturnWithoutData(result, msg) ==
    [status |-> "partial_success",
     extracted_data |-> None,
     save_error |-> "Failed to save file: " \o msg]

PartialReturn(result, msg) ==
    [status |-> "partial_success",
     extracted_data |-> result,
     save_error |-> "Failed to save file: " \o msg]

SuccessReturn(out, goal, facts) ==
    [status |-> "success",
     message |-> "Successfully processed and saved to " \o out,
     saved_path |-> out,
     data_preview |-> [goal |-> goal, facts_count |-> Len(facts)]]

\* An exception that leaves the function instead of a return value.
Raised(exc) == [raised |-> exc]

\* Lines 97-103.
ResultMapping(path, goal, facts, analyses, links) ==
    Dict(<< <<"source_file", Str(path)>>,
            <<"user_goal", goal>>,
            <<"gathered_facts", List(facts)>>,
            <<"previous_analyses", List(analyses)>>,
            <<"links_to_text", List(links)>> >>)

\* Mutant: the default the docstring describes (lines 16-18), a fixed file name.
DefaultOutputFixedName(path) == VirtualRoot \o "processed_trace.json"

\* Line 110.
DefaultOutput(path) == VirtualRoot \o Stem(path) \o "_processed.json"

----------------------------------------------------------------------------
(* Inputs: the trace records, the documents and the paths the calls are given. *)

LongAnswer == "AAAAAAAAAAAAAAAAAAAAAAAAAAAAAAAAAAAAAAAAAAAAAAAAAAAAAAAAAAAA"

FullCitation ==
    Dict(<< <<"url", Str("http://a")>>, <<"title", Str("T")>>, <<"index", Num(1)>> >>)

FullSearch ==
    Dict(<< <<"subTask", Str("find X")>>,
            <<"answer", Str(LongAnswer)>>,
            <<"citation", List(<<FullCitation>>)>> >>)

\* A citation whose url is present and null.
NullUrlCitation == Dict(<< <<"url", None>>, <<"title", Str("U")>> >>)

\* A search content without subTask and answer, holding a citation without
\* fields, an entry that is no mapping and a citation with a null url.
BareSearch ==
    Dict(<< <<"citation", List(<<Dict(<<>>), Str("junk"), NullUrlCitation>>)>> >>)

MsgGoal ==
    Dict(<< <<"id", Num(1)>>, <<"role", Str("client")>>, <<"content", Str("find X")>> >>)
MsgGoalNoContent == Dict(<< <<"id", Num(1)>>, <<"role", Str("client")>> >>)
MsgGoalTrueId ==
    Dict(<< <<"id", Bool(TRUE)>>, <<"role", Str("client")>>, <<"content", Str("yes")>> >>)
MsgGoalSearch ==
    Dict(<< <<"id", Num(1)>>, <<"role", Str("client")>>, <<"taskType", Str("search")>>,
            <<"content", FullSearch>> >>)
MsgNotGoal ==
    Dict(<< <<"id", Str("1")>>, <<"role", Str("client")>>, <<"content", Str("no")>> >>)
MsgSearch ==
    Dict(<< <<"taskType", Str("search")>>, <<"role", Str("server")>>,
            <<"content", FullSearch>> >>)
MsgSearchBare == Dict(<< <<"taskType", Str("search")>>, <<"content", BareSearch>> >>)
MsgSearchText ==
    Dict(<< <<"id", Num(4)>>, <<"taskType", Str("search")>>, <<"content", Str("plain")>> >>)
MsgSearchBadAnswer ==
    Dict(<< <<"taskType", Str("search")>>,
            <<"content", Dict(<< <<"answer", Num(7)>>,
                                 <<"citation", List(<<FullCitation>>)>> >>)>> >>)
MsgSearchNullCitation ==
    Dict(<< <<"taskType", Str("search")>>,
            <<"content", Dict(<< <<"subTask", Str("s")>>, <<"citation", None>> >>)>> >>)
MsgAnalysis ==
    Dict(<< <<"id", Num(2)>>, <<"role", Str("server")>>, <<"taskType", Str("analyze")>>,
            <<"content", Str("done")>> >>)
MsgAnalysisObject ==
    Dict(<< <<"id", Num(3)>>, <<"role", Str("server")>>, <<"taskType", Str("analyze")>>,
            <<"content", Dict(<< <<"k", Str("a\"b")>> >>)>> >>)
MsgAnalysisClient ==
    Dict(<< <<"role", Str("client")>>, <<"taskType", Str("analyze")>>,
            <<"content", Str("x")>> >>)

\* The entries a record list is drawn from; Num(42) is an entry that is no mapping.
Msgs ==
    {MsgGoal, MsgGoalNoContent, MsgGoalTrueId, MsgGoalSearch, MsgNotGoal, MsgSearch, MsgSearchBare,
     MsgSearchText, MsgSearchBadAnswer, MsgSearchNullCitation, MsgAnalysis,
     MsgAnalysisObject, MsgAnalysisClient, Num(42)}

RecordLists == UNION {[1..n -> Msgs] : n \in 0..MaxLen}

\* The two root shapes of a record list (lines 41-45).
Wrapped(records) == Dict(<< <<"fullContent", List(records)>> >>)
Bare(records) == List(records)

\* Roots the normalisation rejects or defaults.
OddRoots ==
    {Num(7), Dict(<< <<"fullContent", Str("oops")>> >>), Dict(<< <<"meta", Num(1)>> >>)}

\* Every document of the scan specification.
ScanRoots == {Wrapped(r) : r \in RecordLists} \cup {Bare(r) : r \in RecordLists} \cup OddRoots

\* The documents of the filesystem specification.
FsRoots ==
    {Wrapped(<<MsgGoal, MsgSearch>>), Bare(<<MsgGoalSearch, MsgAnalysis>>),
     Bare(<<MsgSearchBadAnswer>>)} \cup OddRoots

\* The trace file of the initial filesystem.
TracePath == "/workspace/test.json"

\* An output path of earlier calls that later calls read: missing at first.
SummaryPath == "/workspace/out/summary.json"

InputPaths == {TracePath, SummaryPath, "/etc/passwd"}

OutputPaths ==
    {None, Str(""), Str(SummaryPath), Str(TracePath),
     Str("/workspace/./test.json"), Str("/workspace/out"), Str("/tmp/out.json")}

----------------------------------------------------------------------------
(* The call, step by step. *)

locals == <<input_path, data, full_content, idx, user_goal, gathered_facts,
            previous_analyses, links_to_text, processed_result, save_path>>
scanned == <<idx, user_goal, gathered_facts, previous_analyses, links_to_text>>
args == <<virtual_json_path, output_virtual_path>>
world == <<fs, dirs>>
ghosts == <<calls, entry, prev>>

NoCall == [none |-> TRUE]

\* The finished call as its caller saw it.
Finished ==
    [virtual_json_path |-> virtual_json_path,
     output_virtual_path |-> entry.output_virtual_path,
     fault |-> fault,
     data |-> data,
     processed_result |-> processed_result,
     ret |-> ret]

\* The caller invokes the tool (line 7).
Invoke(path, out) ==
    /\ pc \in {"idle", "done"}
    /\ calls < MaxCalls
    /\ calls' = calls + 1
    /\ prev' = IF pc = "done" THEN Finished ELSE NoCall
    /\ entry' = [fs |-> fs, dirs |-> dirs, output_virtual_path |-> out]
    /\ virtual_json_path' = path
    /\ output_virtual_path' = out
    /\ input_path' = Unbound
    /\ data' = Unbound
    /\ full_content' = Unbound
    /\ idx' = 0
    /\ user_goal' = Unbound
    /\ gathered_facts' = Unbound
    /\ previous_analyses' = Unbound
    /\ links_to_text' = Unbound
    /\ processed_result' = Unbound
    /\ save_path' = Unbound
    /\ ret' = Unbound
    /\ fault' = "none"
    /\ pc' = "resolve_input"
    /\ UNCHANGED world

\* Lines 25-28.  The resolver may refuse any path (`refused`).
ResolveInput(env) ==
    /\ pc = "resolve_input"
    /\ \E refused \in env :
          IF refused \/ ResolveRaises(virtual_json_path)
          THEN /\ ret' = ErrorReturn("Input path resolution failed: unresolvable path")
               /\ fault' = "input_resolution"
               /\ pc' = "done"
               /\ UNCHANGED input_path
          ELSE /\ input_path' = Resolve(virtual_json_path)
               /\ pc' = "check_exists"
               /\ UNCHANGED <<ret, fault>>
    /\ UNCHANGED <<world, args, ghosts, data, full_content, scanned, processed_result,
                   save_path>>

\* Mutant: the existence check opens the file for appending, which creates it.
CheckExistsCreating ==
    /\ pc = "check_exists"
    /\ IF Exists(input_path)
       THEN /\ pc' = "load"
            /\ UNCHANGED <<ret, fault, fs>>
       ELSE /\ ret' = ErrorReturn("File not found: " \o virtual_json_path)
            /\ fault' = "not_found"
            /\ pc' = "done"
            /\ fs' = [p \in DOMAIN fs \cup {input_path} |->
                         IF p = input_path THEN BrokenFile("") ELSE fs[p]]
    /\ UNCHANGED <<dirs, args, ghosts, locals>>

\* Lines 30-31.
CheckExists ==
    /\ pc = "check_exists"
    /\ IF Exists(input_path)
       THEN /\ pc' = "load"
            /\ UNCHANGED <<ret, fault>>
       ELSE /\ ret' = ErrorReturn("File not found: " \o virtual_json_path)
            /\ fault' = "not_found"
            /\ pc' = "done"
    /\ UNCHANGED <<world, args, ghosts, locals>>

\* Lines 33-37.  Reading may fail for a reason of the filesystem's (`io_error`).
LoadJson(env) ==
    /\ pc = "load"
    /\ \E io_error \in env :
          IF io_error \/ input_path \in dirs \/ JsonLoadRaises(fs[input_path])
          THEN /\ ret' = ErrorReturn("Error reading JSON: unreadable or malformed")
               /\ fault' = "parse"
               /\ pc' = "done"
               /\ UNCHANGED data
          ELSE /\ data' = fs[input_path].doc
               /\ pc' = "normalize"
               /\ UNCHANGED <<ret, fault>>
    /\ UNCHANGED <<world, args, ghosts, input_path, full_content, scanned,
                   processed_result, save_path>>

\* Mutant: only a mapping root is accepted.
RecordsOfMappingOnly(root) ==
    IF IsDict(root) THEN Get(root, "fullContent", List(<<>>)) ELSE Unbound

\* Lines 41-45: the record list of a root, Unbound for a root of neither shape.
RecordsOf(root) ==
    IF IsDict(root) THEN Get(root, "fullContent", List(<<>>))
    ELSE IF IsList(root) THEN root
    ELSE Unbound

\* Lines 41-56.
NormalizeRoot ==
    /\ pc = "normalize"
    /\ IF RecordsOf(data) = Unbound
       THEN /\ ret' = ErrorReturn("JSON root is neither a list nor a dict.")
            /\ fault' = "schema"
            /\ pc' = "done"
            /\ UNCHANGED <<full_content, scanned>>
       ELSE IF ~IsList(RecordsOf(data))
       THEN /\ full_content' = RecordsOf(data)
            /\ ret' = ErrorReturn("'fullContent' is not a list.")
            /\ fault' = "schema"
            /\ pc' = "done"
            /\ UNCHANGED scanned
       ELSE /\ full_content' = RecordsOf(data)
            /\ user_goal' = Str("")
            /\ gathered_facts' = <<>>
            /\ previous_analyses' = <<>>
            /\ links_to_text' = <<>>
            /\ idx' = 0
            /\ pc' = "scan"
            /\ UNCHANGED <<ret, fault>>
    /\ UNCHANGED <<world, args, ghosts, input_path, data, processed_result, save_path>>

\* Lines 58-94: one iteration of the loop.
ScanNext ==
    /\ pc = "scan"
    /\ idx < Len(full_content.list)
    /\ LET msg == full_content.list[idx + 1]
           acc == ScanRecord([user_goal |-> user_goal,
                              gathered_facts |-> gathered_facts,
                              previous_analyses |-> previous_analyses,
                              links_to_text |-> links_to_text], msg)
       IN  IF BodyRaises(msg)
           THEN /\ ret' = Raised("TypeError")
                /\ fault' = "scan"
                /\ pc' = "done"
                /\ UNCHANGED scanned
           ELSE /\ user_goal' = acc.user_goal
                /\ gathered_facts' = acc.gathered_facts
                /\ previous_analyses' = acc.previous_analyses
                /\ links_to_text' = acc.links_to_text
                /\ idx' = idx + 1
                /\ UNCHANGED <<ret, fault, pc>>
    /\ UNCHANGED <<world, args, ghosts, input_path, data, full_content,
                   processed_result, save_path>>

\* Lines 97-103, reached when the loop has consumed every record.
BuildResult ==
    /\ pc = "scan"
    /\ idx = Len(full_content.list)
    /\ processed_result' = ResultMapping(virtual_json_path, user_goal, gathered_facts,
                                         previous_analyses, links_to_text)
    /\ pc' = "choose_output"
    /\ UNCHANGED <<world, args, ghosts, input_path, data, full_content, scanned,
                   save_path, ret, fault>>

\* Lines 108-110.
ChooseOutputPath ==
    /\ pc = "choose_output"
    /\ output_virtual_path' =
          IF ~Truthy(output_virtual_path) THEN Str(DefaultOutput(input_path))
          ELSE output_virtual_path
    /\ pc' = "resolve_output"
    /\ UNCHANGED <<world, virtual_json_path, ghosts, locals, ret, fault>>

\* Lines 112 and 120-125.
ResolveOutput(env) ==
    /\ pc = "resolve_output"
    /\ \E refused \in env :
          IF refused \/ ResolveRaises(output_virtual_path.str)
          THEN /\ ret' = PartialReturn(processed_result, "unresolvable path")
               /\ fault' = "output_resolution"
               /\ pc' = "done"
               /\ UNCHANGED save_path
          ELSE /\ save_path' = Resolve(output_virtual_path.str)
               /\ pc' = "make_dirs"
               /\ UNCHANGED <<ret, fault>>
    /\ UNCHANGED <<world, args, ghosts, input_path, data, full_content, scanned,
                   processed_result>>

\* Lines 115 and 120-125.
MakeParentDirs(env) ==
    /\ pc = "make_dirs"
    /\ \E denied \in env :
          IF denied \/ MkdirRaises(Parent(save_path))
          THEN /\ ret' = PartialReturn(processed_result, "cannot create directory")
               /\ fault' = "write"
               /\ pc' = "done"
               /\ UNCHANGED dirs
          ELSE /\ dirs' = dirs \cup Ancestors(Parent(save_path))
               /\ pc' = "write"
               /\ UNCHANGED <<ret, fault>>
    /\ UNCHANGED <<fs, args, ghosts, locals>>

\* The text a failing json.dump has written before it failed.
Truncated(text, kept) == SubSeq(text, 1, kept)

\* Lines 117-118 and 120-125.  open() may fail and leave the file alone; json.dump
\* may fail after open() has emptied the file and part of the text is written.
WriteFile(env) ==
    /\ pc = "write"
    /\ \E outcome \in {"written"} \cup (IF TRUE \in env THEN {"open_fails", "dump_fails"} ELSE {}) :
          LET text == DumpedFile(processed_result).text
          IN  IF outcome = "open_fails" \/ save_path \in dirs
              THEN /\ ret' = PartialReturn(processed_result, "cannot open file")
                   /\ fault' = "write"
                   /\ pc' = "done"
                   /\ UNCHANGED fs
              ELSE IF outcome = "dump_fails"
              THEN /\ \E kept \in {0, Len(text) \div 2} :
                         fs' = [p \in DOMAIN fs \cup {save_path} |->
                                   IF p = save_path THEN BrokenFile(Truncated(text, kept))
                                   ELSE fs[p]]
                   /\ ret' = PartialReturn(processed_result, "cannot write file")
                   /\ fault' = "write"
                   /\ pc' = "done"
              ELSE /\ fs' = [p \in DOMAIN fs \cup {save_path} |->
                                IF p = save_path THEN DumpedFile(processed_result)
                                ELSE fs[p]]
                   /\ pc' = "return_success"
                   /\ UNCHANGED <<ret, fault>>
    /\ UNCHANGED <<dirs, args, ghosts, locals>>

\* Lines 127-135.
ReturnSuccess ==
    /\ pc = "return_success"
    /\ ret' = SuccessReturn(output_virtual_path.str, user_goal.str, gathered_facts)
    /\ pc' = "done"
    /\ UNCHANGED <<world, args, ghosts, locals, fault>>

\* The collaborators (resolver, filesystem) fail only for a reason the paths and
\* the files themselves give, or may also fail for any other reason.
Reliable == {FALSE}
Unreliable == BOOLEAN

\* The body of the function, from its first statement to its return; `env` says
\* whether a collaborator may fail for a reason of its own.
Body(env) ==
    \/ ResolveInput(env)
    \/ CheckExists
    \/ LoadJson(env)
    \/ NormalizeRoot
    \/ ScanNext
    \/ BuildResult
    \/ ChooseOutputPath
    \/ ResolveOutput(env)
    \/ MakeParentDirs(env)
    \/ WriteFile(env)
    \/ ReturnSuccess

\* A call with any of the input and output paths.
Call == \E path \in InputPaths, out \in OutputPaths : Invoke(path, out)

\* A first or a second call on the trace file, with the default output path.
CallTrace == prev = NoCall /\ Invoke(TracePath, None)

\* Between two calls the trace is exported again in the other root shape:
\* {"fullContent": L} becomes L, and L becomes {"fullContent": L}.
Reshaped(root) ==
    IF IsList(root) THEN Wrapped(root.list) ELSE Bare(Get(root, "fullContent", None).list)

Reshapable(root) ==
    \/ IsList(root)
    \/ IsDict(root) /\ Len(root.dict) = 1 /\ IsList(Get(root, "fullContent", None))

ReshapeTrace ==
    /\ pc = "done"
    /\ prev = NoCall
    /\ Resolve(TracePath) \in DOMAIN fs
    /\ ~JsonLoadRaises(fs[Resolve(TracePath)])
    /\ Reshapable(fs[Resolve(TracePath)].doc)
    /\ LET root == Reshaped(fs[Resolve(TracePath)].doc)
       IN  fs' = [fs EXCEPT ![Resolve(TracePath)] = JsonFile(root, JsonDumps(root))]
    /\ UNCHANGED <<dirs, pc, fault, calls, args, locals, ret, entry, prev>>

\* The initial filesystem: the workspace directory holding one trace file.
InitWith(roots) ==
    /\ \E file \in {JsonFile(r, JsonDumps(r)) : r \in roots} \cup {BrokenFile("{not json")} :
          fs = [p \in {Resolve(TracePath)} |-> file]
    /\ dirs = Ancestors(WorkspaceRoot)
    /\ pc = "idle"
    /\ fault = "none"
    /\ calls = 0
    /\ virtual_json_path = Unbound
    /\ output_virtual_path = Unbound
    /\ input_path = Unbound
    /\ data = Unbound
    /\ full_content = Unbound
    /\ idx = 0
    /\ user_goal = Unbound
    /\ gathered_facts = Unbound
    /\ previous_analyses = Unbound
    /\ links_to_text = Unbound
    /\ processed_result = Unbound
    /\ save_path = Unbound
    /\ ret = Unbound
    /\ entry = Unbound
    /\ prev = NoCall

Init == InitWith(FsRoots)
Next == Call \/ Body(Unreliable)

\* Calls with any paths on a filesystem holding one of a few documents.
Spec == Init /\ [][Next]_vars

InitScan == InitWith(ScanRoots)
NextScan == CallTrace \/ Body(Reliable) \/ ReshapeTrace

\* Calls on the trace file, holding any document built from the record lists.
SpecScan == InitScan /\ [][NextScan]_vars

----------------------------------------------------------------------------
(* Properties. *)

\* The call is over: it returned a mapping, or an exception left it.
Over == pc = "done"
Returned == Over /\ "status" \in DOMAIN ret
Status(s) == Returned /\ ret.status = s

\* The scan consumed every record and the result mapping was built.
Extracted == processed_result # Unbound

\* C1: every call ends by returning a mapping whose status is "success", "error"
\* or "partial_success"; no exception leaves the function.
C1_AlwaysReturnsStatus ==
    Over => /\ "status" \in DOMAIN ret
            /\ ret.status \in {"success", "error", "partial_success"}

\* C2 as stated: only a failure to create the directory or write the file gives
\* "partial_success"; every other failure, a resolver failure on the output path
\* included, gives "error" before any extraction work.
C2_OnlyWriteIsPartial ==
    Returned =>
        /\ ret.status = "partial_success" <=> fault = "write"
        /\ fault \in {"input_resolution", "output_resolution", "not_found", "parse",
                      "schema"}
              => ret.status = "error" /\ idx = 0 /\ user_goal = Unbound

\* C2 amended: a failure to create the directory or write the file, and a resolver
\* failure on the output path, give "partial_success" once extraction is complete;
\* a resolver failure on the input path, a missing file, an unreadable or malformed
\* file and a root of the wrong shape give "error" before any extraction work.
C2_SaveFailuresArePartial ==
    Returned =>
        /\ ret.status = "partial_success" <=> fault \in {"write", "output_resolution"}
        /\ ret.status = "partial_success" => Extracted
        /\ ret.status = "error"
              <=> fault \in {"input_resolution", "not_found", "parse", "schema"}
        /\ ret.status = "error"
              => idx = 0 /\ user_goal = Unbound /\ ~Extracted
        /\ ret.status = "success" <=> fault = "none"

C2_Witness ==
    /\ Status("partial_success")
    /\ fault = "output_resolution"
    /\ Len(gathered_facts) > 0

\* C3: when extraction completes and saving fails, the call returns
\* "partial_success" with a save_error message and, as extracted_data, the whole
\* result mapping of the completed scan, the mapping a successful save writes: a
\* file the failed save left half written holds the beginning of its text.
C3_PartialCarriesResult ==
    Over /\ fault \in {"write", "output_resolution"} =>
        /\ Status("partial_success")
        /\ StartsWith(ret.save_error, "Failed to save file: ")
        /\ idx = Len(full_content.list)
        /\ ret.extracted_data =
              ResultMapping(virtual_json_path, user_goal, gathered_facts,
                            previous_analyses, links_to_text)
        /\ fs # entry.fs
              => StartsWith(JsonDumpsIndent(ret.extracted_data, 0), fs[save_path].text)

C3_Witness ==
    /\ Status("partial_success")
    /\ fault = "write"
    /\ Len(gathered_facts) > 0
    /\ Len(links_to_text) > 0
    /\ user_goal # Str("")

\* C4: a call that returns "error" leaves the filesystem as it found it: no file
\* is created or overwritten and no directory is created.
C4_ErrorLeavesFilesystem ==
    Status("error") => fs = entry.fs /\ dirs = entry.dirs

C4_Witness ==
    /\ Status("error")
    /\ fault = "parse"
    /\ prev # NoCall
    /\ "status" \in DOMAIN prev.ret
    /\ prev.ret.status = "success"

\* The records of the input, once the root is normalised.
Records == full_content.list

\* A record of the kind a rule of the scan selects.
IsSearchRecord(m) == IsDict(m) /\ IsSearch(m)
IsAnalysisRecord(m) == IsDict(m) /\ IsAnalysis(m)
IsGoalRecord(m) == IsDict(m) /\ IsGoal(m)
HasSearchType(m) == IsDict(m) /\ EqualsStr(Get(m, "taskType", None), "search")

ContentOf(m) == Get(m, "content", None)

\* The citation mappings of a search record, in order.
CitationMappings(m) == Mappings(Elements(CitationsOf(ContentOf(m))))

\* Every entry of the citation field of a record of search type, mapping or not.
Citations(m) ==
    IF IsDict(ContentOf(m)) /\ Iterable(CitationsOf(ContentOf(m)))
    THEN Elements(CitationsOf(ContentOf(m)))
    ELSE <<>>

RECURSIVE Flatten(_)
Flatten(seqs) == IF Len(seqs) = 0 THEN <<>> ELSE Head(seqs) \o Flatten(Tail(seqs))

\* What the three sequences hold when each selected record contributes its
\* entries once, in input order.
ExpectedFacts(L) ==
    LET S == SelectSeq(L, IsSearchRecord)
    IN  [n \in 1..Len(S) |-> FactBlock(ContentOf(S[n]))]
ExpectedAnalyses(L) ==
    LET S == SelectSeq(L, IsAnalysisRecord)
    IN  [n \in 1..Len(S) |-> AnalysisEntry(S[n])]
ExpectedLinks(L) ==
    LET S == SelectSeq(L, IsSearchRecord)
    IN  Flatten([n \in 1..Len(S) |-> LinkLines(ContentOf(S[n]))])

\* C5 as stated: one fact per record whose taskType is "search", one analysis
\* per "analyze" record of role "server", one link line per citation of the
\* search records, each sequence in input order.
C5_OnePerSearchTypeRecord ==
    Extracted =>
        /\ Len(gathered_facts) = Len(SelectSeq(Records, HasSearchType))
        /\ Len(previous_analyses) = Len(SelectSeq(Records, IsAnalysisRecord))
        /\ Len(links_to_text)
              = Len(Flatten([n \in 1..Len(SelectSeq(Records, HasSearchType)) |->
                               Citations(SelectSeq(Records, HasSearchType)[n])]))
        /\ gathered_facts = ExpectedFacts(Records)
        /\ previous_analyses = ExpectedAnalyses(Records)
        /\ links_to_text = ExpectedLinks(Records)

\* C5 amended: in every result the call builds, gathered_facts holds exactly one
\* entry per mapping record whose taskType is "search" and whose content is a
\* mapping, previous_analyses one entry per "analyze" record of role "server",
\* links_to_text one line per citation that is a mapping in those search records,
\* each in input (and citation) order, nothing merged or reordered.
C5_OnePerSelectedRecord ==
    Extracted =>
        /\ gathered_facts = ExpectedFacts(Records)
        /\ previous_analyses = ExpectedAnalyses(Records)
        /\ links_to_text = ExpectedLinks(Records)

C5_Witness ==
    /\ Extracted
    /\ Records = <<MsgSearchBare, MsgSearch>>
    /\ Len(gathered_facts) = 2
    /\ Len(links_to_text) = 3
    /\ Get(gathered_facts[2], "topic", None) = Str("find X")

\* C6: two calls in a row with the same input path and the same explicit output
\* path, both successful, leave the same bytes in the output file.  (entry.fs is
\* the filesystem the first call left: nothing but calls changes it.)
C6_SecondRunSameBytes ==
    /\ Status("success")
    /\ prev # NoCall
    /\ "status" \in DOMAIN prev.ret
    /\ prev.ret.status = "success"
    /\ prev.virtual_json_path = virtual_json_path
    /\ Truthy(entry.output_virtual_path)
    /\ prev.output_virtual_path = entry.output_virtual_path
    => fs[save_path].text = entry.fs[save_path].text

\* Two documents holding one record list, one in each root shape.
Twin(a, b) == Reshapable(a) /\ Reshaped(a) = b

\* C7: a document {"fullContent": L} and the bare list L, read from the same
\* input path, give the same result mapping and the same return value.
C7_RootShapesAgree ==
    /\ Over
    /\ prev # NoCall
    /\ prev.virtual_json_path = virtual_json_path
    /\ Twin(prev.data, data)
    => prev.processed_result = processed_result /\ prev.ret = ret

C7_Witness ==
    /\ Status("success")
    /\ prev # NoCall
    /\ Twin(prev.data, data)
    /\ IsList(prev.data)
    /\ Len(gathered_facts) > 0
    /\ Len(previous_analyses) > 0

\* Position of the fact of record n among the facts, and the number of link
\* lines the records before record n gave.
FactIndex(L, n) == Len(SelectSeq(SubSeq(L, 1, n), IsSearchRecord))
LinkOffset(L, n) == Len(ExpectedLinks(SubSeq(L, 1, n - 1)))

\* The field of a mapping as text, or the stand-in when the key is missing.
FieldOr(d, k, standin) == IF HasKey(d, k) THEN PyStr(Get(d, k, None)) ELSE standin

ExpectedDefault ==
    IF virtual_json_path = TracePath THEN "/workspace/test_processed.json"
    ELSE "/workspace/summary_processed.json"

GoalPositions(L) == {n \in 1..Len(L) : IsGoalRecord(L[n])}

\* C10: the rules fire independently: a record that satisfies the goal condition
\* and is a search record with mapping content both sets user_goal and appends
\* its one fact; after the scan user_goal is the string form of the content of
\* the last record satisfying the goal condition, or "" if there is none.
C10_RulesFireIndependently ==
    Extracted =>
        LET goals == GoalPositions(Records)
            last == CHOOSE n \in goals : \A m \in goals : m <= n
        IN  /\ user_goal = (IF goals = {} THEN Str("")
                            ELSE Str(PyStr(ContentOf(Records[last]))))
            /\ Len(gathered_facts) = Len(SelectSeq(Records, IsSearchRecord))
            /\ \A n \in goals :
                  IsSearch(Records[n])
                     => gathered_facts[FactIndex(Records, n)]
                           = FactBlock(ContentOf(Records[n]))

C10_Witness ==
    /\ Extracted
    /\ Records = <<MsgGoal, MsgGoalSearch>>
    /\ user_goal = Str("{'subTask': 'find X', 'answer': '" \o LongAnswer
                          \o "', 'citation': [{'url': 'http://a', 'title': 'T', 'index': 1}]}")
    /\ Len(gathered_facts) = 1

====
